---------------------------- MODULE Spec2Model ----------------------------
(***************************************************************************)
(* Model of packages/mongodb/clients/mongodb.remote.client.js: connect()   *)
(* validates its options with a Joi schema, then either opens an SSH       *)
(* tunnel and connects to DocumentDB through it (_connectThroughSSHTunnel) *)
(* or connects directly (_connect).                                        *)
(*                                                                         *)
(* The two external calls (TUNNEL = promisified tunnel-ssh, and            *)
(* MONGODB.connect) are the environment: each call is recorded with its    *)
(* arguments and later resolves or rejects.                                *)
(***************************************************************************)
EXTENDS Integers, Sequences, FiniteSets, TLC

(***************************************************************************)
(* Bounds of the model.                                                    *)
(***************************************************************************)
\* Number of connect() invocations that may be in flight together.
NumAttempts == 2
\* Number of fields of a base configuration that one input may perturb.
MaxOverrides == 1

Attempts == 1..NumAttempts

(***************************************************************************)
(* JavaScript values.  A value is a record [t, s, n, b]: t is the typeof   *)
(* tag, s the payload of a string, n the payload of a number in tenths     *)
(* (so that 1.5 is n = 15 and 27017 is n = 270170), b the payload of a     *)
(* boolean.                                                                *)
(***************************************************************************)
Undefined == [t |-> "undefined", s |-> "", n |-> 0, b |-> FALSE]
Str(x) == [t |-> "string", s |-> x, n |-> 0, b |-> FALSE]
Num(x) == [t |-> "number", s |-> "", n |-> 10 * x, b |-> FALSE]
Tenths(x) == [t |-> "number", s |-> "", n |-> x, b |-> FALSE]
Bool(x) == [t |-> "boolean", s |-> "", n |-> 0, b |-> x]

\* Number -> String, as a template literal converts a number.
NumberToString(n) ==
    LET a == IF n < 0 THEN 0 - n ELSE n
        sign == IF n < 0 THEN "-" ELSE ""
        frac == IF a % 10 = 0 THEN "" ELSE "." \o ToString(a % 10)
    IN  sign \o ToString(a \div 10) \o frac

\* `${v}`: the string conversion a template literal applies to a value.
ToStr(v) ==
    CASE v.t = "string" -> v.s
      [] v.t = "number" -> NumberToString(v.n)
      [] v.t = "boolean" -> (IF v.b THEN "true" ELSE "false")
      [] OTHER -> "undefined"

\* The truthiness test of the conditional operator (v ? x : y).
Truthy(v) ==
    CASE v.t = "string" -> v.s # ""
      [] v.t = "number" -> v.n # 0
      [] v.t = "boolean" -> v.b
      [] OTHER -> FALSE

(***************************************************************************)
(* The Joi schema of connect(), lines 17-35, in key order.                 *)
(***************************************************************************)
Schema ==
    << [key |-> "env", type |-> "env"],
       [key |-> "makeTunnel", type |-> "boolean"],
       [key |-> "sslCA", type |-> "string"],
       [key |-> "vpcTunnelEC2Username", type |-> "string"],
       [key |-> "vpcTunnelEC2Host", type |-> "string"],
       [key |-> "vpcTunnelEC2Port", type |-> "number"],
       [key |-> "vpcTunnelEC2PortLocal", type |-> "number"],
       [key |-> "vpcTunnelEC2PrivateKey", type |-> "string"],
       [key |-> "documentdbClusterEndpoint", type |-> "string"],
       [key |-> "documentdbClusterPort", type |-> "number"],
       [key |-> "documentdbClusterDbName", type |-> "string"],
       [key |-> "documentdbClusterUsername", type |-> "string"],
       [key |-> "documentdbClusterPassword", type |-> "string"],
       [key |-> "documentdbEndpoint", type |-> "string"],
       [key |-> "documentdbPort", type |-> "number"] >>

Keys == {Schema[i].key : i \in 1..Len(Schema)}

\* The numbers a numeric string of the model can denote (payloads in tenths).
NumberUniverse == {0 - 10, 0, 15, 220, 270170, 270180, 270190}

\* Joi's string -> number conversion succeeds on the strings that print a number.
IsNumericString(x) == \E n \in NumberUniverse : NumberToString(n) = x
ParseNumber(x) == CHOOSE n \in NumberUniverse : NumberToString(n) = x

\* A string rule that would let the empty string through (.allow('')).
JoiStringAllowingEmpty(v) == v.t = "string"

\* JOI.string(): a string, and not the empty one.
JoiString(v) == v.t = "string" /\ v.s # ""

\* JOI.number(): a number, or (convert is on by default) a numeric string.
JoiNumber(v) == v.t = "number" \/ (v.t = "string" /\ IsNumericString(v.s))

\* JOI.boolean(): a boolean, or (convert) one of the strings "true", "false".
JoiBoolean(v) == v.t = "boolean" \/ (v.t = "string" /\ v.s \in {"true", "false"})

\* A schema that would accept the literal 'remote' only (JOI.string().valid).
JoiEnvOnlyRemote(v) == v = Str("remote")

\* JOI.string().allow('remote'), line 20: allow() adds 'remote' to the values
\* accepted before the type's rules run; it does not remove any other value.
JoiEnv(v) == v = Str("remote") \/ JoiString(v)

\* One key's rule with .required(): the value is present and its type accepts it.
JoiAccepts(type, v) ==
    /\ v.t # "undefined"
    /\ CASE type = "env" -> JoiEnv(v)
         [] type = "string" -> JoiString(v)
         [] type = "number" -> JoiNumber(v)
         [] type = "boolean" -> JoiBoolean(v)

\* The value validate() reports for one accepted key (strings converted).
JoiConvert(type, v) ==
    CASE type = "number" /\ v.t = "string" -> Tenths(ParseNumber(v.s))
      [] type = "boolean" /\ v.t = "string" -> Bool(v.s = "true")
      [] OTHER -> v

\* Positions of the schema whose key the options violate.
Violations(o) == {i \in 1..Len(Schema) : ~JoiAccepts(Schema[i].type, o[Schema[i].key])}

NoError == [name |-> "none", key |-> ""]
ValidationError(k) == [name |-> "ValidationError", key |-> k]

\* schema.validate(options), line 36: {error, value}; abortEarly reports the
\* first violation in key order.
JoiValidate(o) ==
    LET bad == Violations(o)
        first == CHOOSE i \in bad : \A j \in bad : i <= j
    IN  [error |-> IF bad = {} THEN NoError ELSE ValidationError(Schema[first].key),
         value |-> [k \in Keys |->
                      LET i == CHOOSE j \in 1..Len(Schema) : Schema[j].key = k
                      IN  IF i \in bad THEN o[k] ELSE JoiConvert(Schema[i].type, o[k])]]

(***************************************************************************)
(* Inputs: option records.                                                 *)
(***************************************************************************)
BaseOptions(tunnel) ==
    [k \in Keys |->
        CASE k = "env" -> Str("remote")
          [] k = "makeTunnel" -> Bool(tunnel)
          [] k = "sslCA" -> Str("CA")
          [] k = "vpcTunnelEC2Username" -> Str("ec2-user")
          [] k = "vpcTunnelEC2Host" -> Str("bastion")
          [] k = "vpcTunnelEC2Port" -> Num(22)
          [] k = "vpcTunnelEC2PortLocal" -> Num(27018)
          [] k = "vpcTunnelEC2PrivateKey" -> Str("KEY")
          [] k = "documentdbClusterEndpoint" -> Str("db.internal")
          [] k = "documentdbClusterPort" -> Num(27017)
          [] k = "documentdbClusterDbName" -> Str("app")
          [] k = "documentdbClusterUsername" -> Str("u")
          [] k = "documentdbClusterPassword" -> Str("p")
          [] k = "documentdbEndpoint" -> Str("localhost")
          [] k = "documentdbPort" -> Num(27019)]

Bases == {BaseOptions(TRUE), BaseOptions(FALSE)}

TypeOfKey(k) == Schema[CHOOSE i \in 1..Len(Schema) : Schema[i].key = k].type

\* The values one perturbed field may take: absent, of the wrong type, empty,
\* convertible strings, other well-typed values, non-positive and fractional numbers.
Alternatives(k) ==
    CASE TypeOfKey(k) = "env" ->
            {Undefined, Str(""), Str("local"), Str("production"), Num(1), Bool(TRUE)}
      [] TypeOfKey(k) = "string" ->
            {Undefined, Str(""), Str("other"), Num(27017), Bool(TRUE)}
      [] TypeOfKey(k) = "number" ->
            {Undefined, Str("27017"), Str("abc"), Num(0 - 1), Num(0), Tenths(15),
             Num(27019), Bool(TRUE)}
      [] TypeOfKey(k) = "boolean" ->
            {Undefined, Bool(TRUE), Bool(FALSE), Str("true"), Str("false"),
             Str("maybe"), Str("")}

RECURSIVE Perturbed(_)
Perturbed(n) ==
    IF n = 0 THEN Bases
    ELSE LET prev == Perturbed(n - 1)
         IN  prev \cup UNION {{[o EXCEPT ![k] = v] : o \in prev, v \in Alternatives(k)} :
                                  k \in Keys}

\* The wide input space: every base configuration with up to MaxOverrides
\* fields perturbed.
WideOptions == Perturbed(MaxOverrides)

\* A representative input space for concurrent attempts: both valid modes, a
\* second valid configuration with other values, and rejected configurations.
SomeOptions ==
    Bases \cup
    { [BaseOptions(TRUE) EXCEPT !["documentdbClusterUsername"] = Str("other"),
                                !["vpcTunnelEC2PortLocal"] = Num(27019)],
      [BaseOptions(TRUE) EXCEPT !["sslCA"] = Undefined],
      [BaseOptions(FALSE) EXCEPT !["documentdbClusterPort"] = Str("abc")] }

(***************************************************************************)
(* The environment's answers.                                              *)
(***************************************************************************)
\* Errors tunnel-ssh can reject with, and errors MONGODB.connect can reject with.
TunnelErrors == {"ECONNREFUSED", "All configured authentication methods failed"}
ConnectErrors == {"MongoNetworkError", "Authentication failed"}

NoValue == [isError |-> FALSE, id |-> "none", attempt |-> 0]
\* The server tunnel-ssh resolves with for attempt a; the client MONGODB.connect
\* resolves with for attempt a; an Error instance with message m.
Server(a) == [isError |-> FALSE, id |-> "server", attempt |-> a]
Client(a) == [isError |-> FALSE, id |-> "client", attempt |-> a]
ErrorOf(m) == [isError |-> TRUE, id |-> m, attempt |-> 0]

\* tunnel instanceof Error, line 65.
InstanceOfError(v) == v.isError


(***************************************************************************)
(* What the two connecting functions compute.                              *)
(***************************************************************************)
\* The selector of line 39: options.makeTunnel ? tunnelled : direct.  It reads
\* the caller's options, not the value validate() returned.
MakeTunnel(o) == Truthy(o.makeTunnel)

\* A tunnel that would listen on documentdbPort instead of vpcTunnelEC2PortLocal.
TunnelConfigurationsWithDocumentdbPort(o) ==
    [username |-> o.vpcTunnelEC2Username,
     host |-> o.vpcTunnelEC2Host,
     port |-> o.vpcTunnelEC2Port,
     privateKey |-> o.vpcTunnelEC2PrivateKey,
     dstHost |-> o.documentdbClusterEndpoint,
     dstPort |-> o.documentdbClusterPort,
     localPort |-> o.documentdbPort]

\* tunnelConfigurations, lines 53-61.
TunnelConfigurations(o) ==
    [username |-> o.vpcTunnelEC2Username,
     host |-> o.vpcTunnelEC2Host,
     port |-> o.vpcTunnelEC2Port,
     privateKey |-> o.vpcTunnelEC2PrivateKey,
     dstHost |-> o.documentdbClusterEndpoint,
     dstPort |-> o.documentdbClusterPort,
     localPort |-> o.vpcTunnelEC2PortLocal]

\* The template literal of lines 89 and 135.
UriTemplate(user, pass, endpoint, port) ==
    "mongodb://" \o ToStr(user) \o ":" \o ToStr(pass) \o "@" \o ToStr(endpoint)
        \o ":" \o ToStr(port)

\* mongoDBOptions, lines 74-82.
TunnelMongoDBOptions(o) ==
    [useNewUrlParser |-> Bool(TRUE),
     ssl |-> Bool(TRUE),
     sslCA |-> o.sslCA,
     auth |-> [user |-> o.documentdbClusterUsername,
               password |-> o.documentdbClusterPassword]]

\* A tunnelled path that would aim at the cluster itself instead of the tunnel.
TunnelUriToCluster(o) ==
    UriTemplate(o.documentdbClusterUsername, o.documentdbClusterPassword,
                o.documentdbClusterEndpoint, o.documentdbClusterPort)

\* uri of the tunnelled path, lines 83-89.
TunnelUri(o) ==
    UriTemplate(o.documentdbClusterUsername, o.documentdbClusterPassword,
                o.documentdbEndpoint, o.vpcTunnelEC2PortLocal)

\* Options of the direct path that would leave TLS off and drop the authority.
DirectMongoDBOptionsWithoutTLS(o) ==
    [useNewUrlParser |-> Bool(TRUE),
     ssl |-> Bool(FALSE),
     sslCA |-> Undefined,
     auth |-> [user |-> o.documentdbClusterUsername,
               password |-> o.documentdbClusterPassword]]

\* mongoDBOptions of the direct path, lines 126-134.
DirectMongoDBOptions(o) ==
    [useNewUrlParser |-> Bool(TRUE),
     ssl |-> Bool(TRUE),
     sslCA |-> o.sslCA,
     auth |-> [user |-> o.documentdbClusterUsername,
               password |-> o.documentdbClusterPassword]]

\* A direct path that would aim at the tunnel's local end instead of the cluster.
DirectUriToTunnel(o) ==
    UriTemplate(o.documentdbClusterUsername, o.documentdbClusterPassword,
                o.documentdbEndpoint, o.vpcTunnelEC2PortLocal)

\* uri of the direct path, lines 113-119 and 135.
DirectUri(o) ==
    UriTemplate(o.documentdbClusterUsername, o.documentdbClusterPassword,
                o.documentdbClusterEndpoint, o.documentdbClusterPort)

NoLocals == [uri |-> "", mongoDBOptions |-> DirectMongoDBOptions(BaseOptions(FALSE)),
             set |-> FALSE]

\* new HTTPError(status, message, properties), lines 66, 101 and 145.
HTTPError(status, message, properties) ==
    [name |-> "HTTPError", status |-> status, message |-> message,
     properties |-> properties]

TunnelFailureMessage == "Error. Could not create SSH tunnel."
TunnelConnectedMessage ==
    "Connected to remote DocumentDB through our EC2 ssh tunnel with MongoDB."
TunnelConnectFailureMessage ==
    "Error. Could not connect to remote DocumentDB through our EC2 ssh tunnel with MongoDB."
DirectConnectedMessage == "Connected to remote DocumentDB with MongoDB."
DirectConnectFailureMessage == "Error. Could not connect to remote DocumentDB with MongoDB."

\* A wrapping that would replace the cause by a fresh error.
TunnelFailureLosingCause(err, o) ==
    HTTPError(500, TunnelFailureMessage,
              [error |-> [isError |-> TRUE, id |-> "Error", attempt |-> 0], options |-> o])

\* The error of lines 65-67.
TunnelFailure(err, o) ==
    HTTPError(500, TunnelFailureMessage, [error |-> err, options |-> o])

\* An envelope whose message would not tell the paths apart.
SuccessWithOneMessage(p, client) ==
    [message |-> DirectConnectedMessage, client |-> client]

\* The .then handlers of lines 95-98 and 139-142.
Success(p, client) ==
    [message |-> IF p = "tunnel" THEN TunnelConnectedMessage ELSE DirectConnectedMessage,
     client |-> client]

\* A wrapping whose message would not tell the paths apart.
ConnectFailureWithOneMessage(p, error, uri, mongoDBOptions) ==
    HTTPError(500, DirectConnectFailureMessage,
              [error |-> error, uri |-> uri, mongoDBOptions |-> mongoDBOptions])

\* The .catch handlers of lines 101-104 and 145-148.
ConnectFailure(p, error, uri, mongoDBOptions) ==
    HTTPError(500,
              IF p = "tunnel" THEN TunnelConnectFailureMessage
                              ELSE DirectConnectFailureMessage,
              [error |-> error, uri |-> uri, mongoDBOptions |-> mongoDBOptions])

Resolved(v) == [kind |-> "resolved", value |-> v]
Rejected(e) == [kind |-> "rejected", value |-> e]

VARIABLES
    pc,             \* pc[a]: where attempt a is in the flow
    options,        \* options[a]: the argument of connect()
    path,           \* path[a]: which function runs ("none", "tunnel", "direct")
    tunnelCalls,    \* tunnelCalls[a]: arguments of a's calls of TUNNEL, in order
    connectCalls,   \* connectCalls[a]: arguments of a's calls of MONGODB.connect
    tunnel,         \* tunnel[a]: the local `tunnel` of _connectThroughSSHTunnel
    locals,         \* locals[a]: the locals `uri` and `mongoDBOptions` of a's function
    connected,      \* connected[a]: what MONGODB.connect settled with for a
    openTunnels,    \* servers tunnel-ssh has opened and nobody has closed
    outcome         \* outcome[a]: settlements of the promise connect() returned

vars == <<pc, options, path, tunnelCalls, connectCalls, tunnel, locals, connected, openTunnels, outcome>>

Terminal == {"ValidationFailed", "TunnelFailed", "Connected", "ConnectFailed"}

Init ==
    /\ pc = [a \in Attempts |-> "Start"]
    /\ options = [a \in Attempts |-> BaseOptions(FALSE)]
    /\ path = [a \in Attempts |-> "none"]
    /\ tunnelCalls = [a \in Attempts |-> <<>>]
    /\ connectCalls = [a \in Attempts |-> <<>>]
    /\ tunnel = [a \in Attempts |-> NoValue]
    /\ locals = [a \in Attempts |-> NoLocals]
    /\ connected = [a \in Attempts |-> NoValue]
    /\ openTunnels = {}
    /\ outcome = [a \in Attempts |-> <<>>]


(***************************************************************************)
(* The flow, one action per step of one attempt.                           *)
(***************************************************************************)
\* connect(options) is called, lines 13-15.
Call(a, o) ==
    /\ pc[a] = "Start"
    /\ pc' = [pc EXCEPT ![a] = "Validating"]
    /\ options' = [options EXCEPT ![a] = o]
    /\ UNCHANGED <<path, tunnelCalls, connectCalls, tunnel, locals, connected, openTunnels, outcome>>

\* A validation whose error would not be thrown.
ValidateWithoutThrow(a) ==
    /\ pc[a] = "Validating"
    /\ pc' = [pc EXCEPT ![a] = "Selecting"]
    /\ UNCHANGED <<options, path, tunnelCalls, connectCalls, tunnel, locals, connected,
                   openTunnels, outcome>>

\* A validation whose error would be wrapped into a status-500 error like the
\* failures of the external calls.
ValidateWrappingError(a) ==
    /\ pc[a] = "Validating"
    /\ LET optionsValidation == JoiValidate(options[a])
       IN  IF optionsValidation.error # NoError
           THEN /\ pc' = [pc EXCEPT ![a] = "ValidationFailed"]
                /\ outcome' = [outcome EXCEPT
                                ![a] = Append(@, Rejected(
                                          HTTPError(500, "Error. Invalid options.",
                                                    [error |-> optionsValidation.error,
                                                     options |-> options[a]])))]
           ELSE /\ pc' = [pc EXCEPT ![a] = "Selecting"]
                /\ UNCHANGED outcome
    /\ UNCHANGED <<options, path, tunnelCalls, connectCalls, tunnel, locals, connected, openTunnels>>

\* Lines 17-37: validate, and throw the validator's error (an async function's
\* throw rejects the promise it returned).
Validate(a) ==
    /\ pc[a] = "Validating"
    /\ LET optionsValidation == JoiValidate(options[a])
       IN  IF optionsValidation.error # NoError
           THEN /\ pc' = [pc EXCEPT ![a] = "ValidationFailed"]
                /\ outcome' = [outcome EXCEPT
                                ![a] = Append(@, Rejected(optionsValidation.error))]
           ELSE /\ pc' = [pc EXCEPT ![a] = "Selecting"]
                /\ UNCHANGED outcome
    /\ UNCHANGED <<options, path, tunnelCalls, connectCalls, tunnel, locals, connected, openTunnels>>

\* A tunnelled path whose TUNNEL call would not be awaited: the flow goes on to
\* MONGODB.connect while the tunnel is still pending.
SelectTunnelWithoutAwait(a) ==
    /\ pc[a] = "Selecting"
    /\ MakeTunnel(options[a])
    /\ path' = [path EXCEPT ![a] = "tunnel"]
    /\ tunnelCalls' = [tunnelCalls EXCEPT ![a] = Append(@, TunnelConfigurations(options[a]))]
    /\ pc' = [pc EXCEPT ![a] = "TunnelEstablished"]
    /\ UNCHANGED <<options, connectCalls, tunnel, locals, connected, openTunnels, outcome>>

\* Lines 39-40 and 49-63: the tunnelled path is taken and TUNNEL is called.
SelectTunnel(a) ==
    /\ pc[a] = "Selecting"
    /\ MakeTunnel(options[a])
    /\ path' = [path EXCEPT ![a] = "tunnel"]
    /\ tunnelCalls' = [tunnelCalls EXCEPT ![a] = Append(@, TunnelConfigurations(options[a]))]
    /\ pc' = [pc EXCEPT ![a] = "TunnelPending"]
    /\ UNCHANGED <<options, connectCalls, tunnel, locals, connected, openTunnels, outcome>>

\* A direct path whose `uri` and `mongoDBOptions` would be module-level variables
\* (declared without const), shared by every attempt.
SelectDirectWithGlobals(a) ==
    /\ pc[a] = "Selecting"
    /\ ~MakeTunnel(options[a])
    /\ path' = [path EXCEPT ![a] = "direct"]
    /\ LET mongoDBOptions == DirectMongoDBOptions(options[a])
           uri == DirectUri(options[a])
       IN  /\ locals' = [b \in Attempts |->
                           [uri |-> uri, mongoDBOptions |-> mongoDBOptions, set |-> TRUE]]
           /\ connectCalls' = [connectCalls EXCEPT
                                ![a] = Append(@, [uri |-> uri, options |-> mongoDBOptions])]
    /\ pc' = [pc EXCEPT ![a] = "Connecting"]
    /\ UNCHANGED <<options, tunnelCalls, tunnel, connected, openTunnels, outcome>>

\* Lines 39-41 and 113-137: the direct path is taken and MONGODB.connect is called.
SelectDirect(a) ==
    /\ pc[a] = "Selecting"
    /\ ~MakeTunnel(options[a])
    /\ path' = [path EXCEPT ![a] = "direct"]
    /\ LET mongoDBOptions == DirectMongoDBOptions(options[a])
           uri == DirectUri(options[a])
       IN  /\ locals' = [locals EXCEPT
                          ![a] = [uri |-> uri, mongoDBOptions |-> mongoDBOptions, set |-> TRUE]]
           /\ connectCalls' = [connectCalls EXCEPT
                                ![a] = Append(@, [uri |-> uri, options |-> mongoDBOptions])]
    /\ pc' = [pc EXCEPT ![a] = "Connecting"]
    /\ UNCHANGED <<options, tunnelCalls, tunnel, connected, openTunnels, outcome>>

\* An await whose result would not be tested for an Error.
AwaitTunnelWithoutTest(a, v) ==
    /\ tunnel' = [tunnel EXCEPT ![a] = v]
    /\ pc' = [pc EXCEPT ![a] = "TunnelEstablished"]
    /\ UNCHANGED outcome

\* Lines 63-67: `tunnel` is what the await yields (the server, or through
\* .catch(err => err) the rejection), and an Error rejects the attempt.
AwaitTunnel(a, v) ==
    /\ tunnel' = [tunnel EXCEPT ![a] = v]
    /\ IF InstanceOfError(v)
       THEN /\ pc' = [pc EXCEPT ![a] = "TunnelFailed"]
            /\ outcome' = [outcome EXCEPT
                            ![a] = Append(@, Rejected(TunnelFailure(v, options[a])))]
       ELSE /\ pc' = [pc EXCEPT ![a] = "TunnelEstablished"]
            /\ UNCHANGED outcome

\* tunnel-ssh opens the tunnel and TUNNEL resolves with its server.
TunnelResolves(a) ==
    /\ pc[a] = "TunnelPending"
    /\ openTunnels' = openTunnels \cup {Server(a)}
    /\ AwaitTunnel(a, Server(a))
    /\ UNCHANGED <<options, path, tunnelCalls, connectCalls, locals, connected>>

\* tunnel-ssh fails and TUNNEL rejects with an Error.
TunnelRejects(a) ==
    /\ pc[a] = "TunnelPending"
    /\ \E m \in TunnelErrors : AwaitTunnel(a, ErrorOf(m))
    /\ UNCHANGED <<options, path, tunnelCalls, connectCalls, locals, connected, openTunnels>>

\* Lines 69-93: with the tunnel listening, MONGODB.connect is called.
ConnectThroughTunnel(a) ==
    /\ pc[a] = "TunnelEstablished"
    /\ LET mongoDBOptions == TunnelMongoDBOptions(options[a])
           uri == TunnelUri(options[a])
       IN  /\ locals' = [locals EXCEPT
                          ![a] = [uri |-> uri, mongoDBOptions |-> mongoDBOptions, set |-> TRUE]]
           /\ connectCalls' = [connectCalls EXCEPT
                                ![a] = Append(@, [uri |-> uri, options |-> mongoDBOptions])]
    /\ pc' = [pc EXCEPT ![a] = "Connecting"]
    /\ UNCHANGED <<options, path, tunnelCalls, tunnel, connected, openTunnels, outcome>>

\* A resolution that would hand out a module-level cached client once an earlier
\* attempt has connected.
ConnectResolvesWithCache(a) ==
    /\ pc[a] = "Connecting"
    /\ connected' = [connected EXCEPT ![a] = Client(a)]
    /\ LET earlier == {b \in Attempts \ {a} : pc[b] = "Connected"}
       IN  outcome' = [outcome EXCEPT
                         ![a] = Append(@, Resolved(
                                   IF earlier = {}
                                   THEN Success(path[a], Client(a))
                                   ELSE [message |-> "Already connected.",
                                         client |-> Client(CHOOSE b \in earlier : TRUE)]))]
    /\ pc' = [pc EXCEPT ![a] = "Connected"]
    /\ UNCHANGED <<options, path, tunnelCalls, connectCalls, tunnel, locals, openTunnels>>

\* MONGODB.connect resolves with a client: lines 94-99 and 138-143.
ConnectResolves(a) ==
    /\ pc[a] = "Connecting"
    /\ connected' = [connected EXCEPT ![a] = Client(a)]
    /\ outcome' = [outcome EXCEPT ![a] = Append(@, Resolved(Success(path[a], Client(a))))]
    /\ pc' = [pc EXCEPT ![a] = "Connected"]
    /\ UNCHANGED <<options, path, tunnelCalls, connectCalls, tunnel, locals, openTunnels>>

\* A rejection that would be answered by calling MONGODB.connect again (the
\* log of calls is kept to two entries).
ConnectRejectsAndRetries(a) ==
    /\ pc[a] = "Connecting"
    /\ \E m \in ConnectErrors : connected' = [connected EXCEPT ![a] = ErrorOf(m)]
    /\ connectCalls' = [connectCalls EXCEPT
                          ![a] = IF Len(@) < 2 THEN Append(@, @[1]) ELSE @]
    /\ UNCHANGED <<pc, options, path, tunnelCalls, tunnel, locals, openTunnels, outcome>>

\* A .catch handler that would close the attempt's tunnel before rejecting.
ConnectRejectsClosingTunnel(a) ==
    /\ pc[a] = "Connecting"
    /\ \E m \in ConnectErrors :
          /\ connected' = [connected EXCEPT ![a] = ErrorOf(m)]
          /\ outcome' = [outcome EXCEPT
                          ![a] = Append(@, Rejected(ConnectFailure(path[a], ErrorOf(m),
                                             locals[a].uri, locals[a].mongoDBOptions)))]
    /\ openTunnels' = openTunnels \ {Server(a)}
    /\ pc' = [pc EXCEPT ![a] = "ConnectFailed"]
    /\ UNCHANGED <<options, path, tunnelCalls, connectCalls, tunnel, locals>>

\* MONGODB.connect rejects: lines 100-105 and 144-149.
ConnectRejects(a) ==
    /\ pc[a] = "Connecting"
    /\ \E m \in ConnectErrors :
          /\ connected' = [connected EXCEPT ![a] = ErrorOf(m)]
          /\ outcome' = [outcome EXCEPT
                          ![a] = Append(@, Rejected(ConnectFailure(path[a], ErrorOf(m),
                                             locals[a].uri, locals[a].mongoDBOptions)))]
    /\ pc' = [pc EXCEPT ![a] = "ConnectFailed"]
    /\ UNCHANGED <<options, path, tunnelCalls, connectCalls, tunnel, locals, openTunnels>>

\* The caller starts an attempt with one of the representative inputs.
CallSome(a) == \E o \in SomeOptions : Call(a, o)

\* The caller starts an attempt with any input of the wide space.
CallWide(a) == \E o \in WideOptions : Call(a, o)

Next ==
    \E a \in Attempts :
        \/ CallSome(a)
        \/ Validate(a)
        \/ SelectTunnel(a)
        \/ SelectDirect(a)
        \/ TunnelResolves(a)
        \/ TunnelRejects(a)
        \/ ConnectThroughTunnel(a)
        \/ ConnectResolves(a)
        \/ ConnectRejects(a)

\* The steps of attempt a that follow its call.
Step(a) ==
    \/ Validate(a)
    \/ SelectTunnel(a)
    \/ SelectDirect(a)
    \/ TunnelResolves(a)
    \/ TunnelRejects(a)
    \/ ConnectThroughTunnel(a)
    \/ ConnectResolves(a)
    \/ ConnectRejects(a)

\* Concurrent attempts over the representative inputs.
Spec == Init /\ [][Next]_vars

\* The same, where every external call made is eventually settled and every
\* continuation that can run eventually runs.
FairSpec == Spec /\ \A a \in Attempts : WF_vars(Step(a))

\* One attempt over the wide input space.
NextWide ==
    \/ CallWide(1)
    \/ Validate(1)
    \/ SelectTunnel(1)
    \/ SelectDirect(1)
    \/ TunnelResolves(1)
    \/ TunnelRejects(1)
    \/ ConnectThroughTunnel(1)
    \/ ConnectResolves(1)
    \/ ConnectRejects(1)

SpecWide == Init /\ [][NextWide]_vars

(***************************************************************************)
(* Properties.                                                             *)
(***************************************************************************)
\* The attempts that have been started.
Started == {a \in Attempts : pc[a] # "Start"}

\* Some required field is absent from the options.
MissingField(o) == \E k \in Keys : o[k] = Undefined

\* Some field holds a value of another type than its rule's, and no string.
WrongType(o) ==
    \E k \in Keys :
        /\ o[k].t \notin {"undefined", "string"}
        /\ o[k].t # (IF TypeOfKey(k) = "env" THEN "string" ELSE TypeOfKey(k))

\* The options fail the schema of lines 17-35.
FailsValidation(o) == Violations(o) # {}

\* What the URI of the specification looks like for the given four values.
ExpectedUri(user, pass, host, port) ==
    "mongodb://" \o user \o ":" \o pass \o "@" \o host \o ":" \o port

\* C1: an attempt whose options fail schema validation (a required field is
\* missing or of the wrong type) is rejected, with the validator's error,
\* before any external call: neither TUNNEL nor MONGODB.connect is called in it.
C1_InvalidOptionsMakeNoCall ==
    \A a \in Started :
        /\ (MissingField(options[a]) \/ WrongType(options[a])) => FailsValidation(options[a])
        /\ FailsValidation(options[a]) =>
              /\ pc[a] \in {"Validating", "ValidationFailed"}
              /\ tunnelCalls[a] = <<>>
              /\ connectCalls[a] = <<>>
              /\ openTunnels \cap {Server(a)} = {}
              /\ pc[a] = "ValidationFailed" =>
                    /\ Len(outcome[a]) = 1
                    /\ outcome[a][1].kind = "rejected"
                    /\ outcome[a][1].value.name = "ValidationError"

\* Witness of C1: an attempt whose options miss a field, or hold a field of the
\* wrong type, has been rejected without any external call.
C1_Witness ==
    \E a \in Attempts :
        /\ pc[a] = "ValidationFailed"
        /\ MissingField(options[a]) \/ WrongType(options[a])
        /\ tunnelCalls[a] = <<>> /\ connectCalls[a] = <<>>

\* C2: with valid options whose makeTunnel is the boolean false, the URI given
\* to MONGODB.connect is exactly mongodb://<documentdbClusterUsername>:
\* <documentdbClusterPassword>@<documentdbClusterEndpoint>:<documentdbClusterPort>,
\* and it is not the URI that documentdbEndpoint, documentdbPort or
\* vpcTunnelEC2PortLocal would give.
C2_DirectUri ==
    \A a \in Started :
        (options[a].makeTunnel = Bool(FALSE) /\ ~FailsValidation(options[a])) =>
            LET o == options[a]
                user == ToStr(o.documentdbClusterUsername)
                pass == ToStr(o.documentdbClusterPassword)
                host == ToStr(o.documentdbClusterEndpoint)
                port == ToStr(o.documentdbClusterPort)
                otherHost == ToStr(o.documentdbEndpoint)
                otherPorts == {ToStr(o.documentdbPort), ToStr(o.vpcTunnelEC2PortLocal)}
            IN  /\ tunnelCalls[a] = <<>>
                /\ pc[a] \in {"Connecting", "Connected", "ConnectFailed"} =>
                      Len(connectCalls[a]) = 1
                /\ \A i \in 1..Len(connectCalls[a]) :
                      /\ connectCalls[a][i].uri = ExpectedUri(user, pass, host, port)
                      /\ otherHost # host =>
                            \A q \in otherPorts \cup {port} :
                                connectCalls[a][i].uri # ExpectedUri(user, pass, otherHost, q)
                      /\ \A q \in otherPorts \ {port} :
                            \A h \in {host, otherHost} :
                                connectCalls[a][i].uri # ExpectedUri(user, pass, h, q)

\* Witness of C2: the example of the specification.
C2_Witness ==
    \E a \in Attempts :
        /\ options[a].makeTunnel = Bool(FALSE)
        /\ Len(connectCalls[a]) = 1
        /\ connectCalls[a][1].uri = "mongodb://u:p@db.internal:27017"

\* C3: with valid options whose makeTunnel is the boolean true, the URI given
\* to MONGODB.connect has host documentdbEndpoint and port vpcTunnelEC2PortLocal,
\* and is not the URI that documentdbClusterEndpoint or documentdbClusterPort
\* would give.
C3_TunnelUri ==
    \A a \in Started :
        (options[a].makeTunnel = Bool(TRUE) /\ ~FailsValidation(options[a])) =>
            LET o == options[a]
                user == ToStr(o.documentdbClusterUsername)
                pass == ToStr(o.documentdbClusterPassword)
                host == ToStr(o.documentdbEndpoint)
                port == ToStr(o.vpcTunnelEC2PortLocal)
                clusterHost == ToStr(o.documentdbClusterEndpoint)
                clusterPort == ToStr(o.documentdbClusterPort)
            IN  /\ pc[a] \in {"Connecting", "Connected", "ConnectFailed"} =>
                      Len(connectCalls[a]) = 1
                /\ \A i \in 1..Len(connectCalls[a]) :
                      /\ connectCalls[a][i].uri = ExpectedUri(user, pass, host, port)
                      /\ clusterHost # host =>
                            \A q \in {port, clusterPort} :
                                connectCalls[a][i].uri # ExpectedUri(user, pass, clusterHost, q)
                      /\ clusterPort # port =>
                            \A h \in {host, clusterHost} :
                                connectCalls[a][i].uri # ExpectedUri(user, pass, h, clusterPort)

\* Witness of C3: a tunnelled attempt has called MONGODB.connect with the
\* tunnel's local end.
C3_Witness ==
    \E a \in Attempts :
        /\ options[a].makeTunnel = Bool(TRUE)
        /\ Len(connectCalls[a]) = 1
        /\ connectCalls[a][1].uri = "mongodb://u:p@localhost:27018"

\* The error an attempt was rejected with, and the envelope it was resolved with.
RejectedWith(a) == outcome[a][1].value
IsRejected(a) == Len(outcome[a]) = 1 /\ outcome[a][1].kind = "rejected"
IsResolved(a) == Len(outcome[a]) = 1 /\ outcome[a][1].kind = "resolved"

\* C4: on the tunnelled path, when TUNNEL fails the attempt is rejected with an
\* error of status 500 whose context holds the original cause and, in the
\* options it carries, every field of the tunnel specification TUNNEL was
\* called with; MONGODB.connect is not called in that attempt.
C4_TunnelFailure ==
    \A a \in Started :
        (path[a] = "tunnel" /\ tunnel[a].isError) =>
            /\ pc[a] = "TunnelFailed"
            /\ IsRejected(a)
            /\ RejectedWith(a).name = "HTTPError"
            /\ RejectedWith(a).status = 500
            /\ RejectedWith(a).properties.error = tunnel[a]
            /\ tunnel[a].id \in TunnelErrors
            /\ Len(tunnelCalls[a]) = 1
            /\ LET carried == RejectedWith(a).properties.options
                   asked == tunnelCalls[a][1]
               IN  /\ carried = options[a]
                   /\ asked.username = carried.vpcTunnelEC2Username
                   /\ asked.host = carried.vpcTunnelEC2Host
                   /\ asked.port = carried.vpcTunnelEC2Port
                   /\ asked.privateKey = carried.vpcTunnelEC2PrivateKey
                   /\ asked.dstHost = carried.documentdbClusterEndpoint
                   /\ asked.dstPort = carried.documentdbClusterPort
                   /\ asked.localPort = carried.vpcTunnelEC2PortLocal
            /\ connectCalls[a] = <<>>
            /\ connected[a] = NoValue

\* Witness of C4: TUNNEL has rejected and the attempt is rejected with status 500.
C4_Witness ==
    \E a \in Attempts :
        /\ pc[a] = "TunnelFailed"
        /\ tunnel[a] = ErrorOf("ECONNREFUSED")
        /\ IsRejected(a)
        /\ RejectedWith(a).status = 500

\* C5: on either path, when MONGODB.connect fails the attempt is rejected with an
\* error of status 500, the message of its path (the two messages differ), the
\* original cause, and a context with the URI and the options MONGODB.connect
\* was called with.
C5_ConnectFailure ==
    /\ TunnelConnectFailureMessage # DirectConnectFailureMessage
    /\ \A a \in Started :
          (connected[a].isError) =>
              /\ pc[a] = "ConnectFailed"
              /\ IsRejected(a)
              /\ RejectedWith(a).name = "HTTPError"
              /\ RejectedWith(a).status = 500
              /\ path[a] = "tunnel" => RejectedWith(a).message = TunnelConnectFailureMessage
              /\ path[a] = "direct" => RejectedWith(a).message = DirectConnectFailureMessage
              /\ RejectedWith(a).properties.error = connected[a]
              /\ Len(connectCalls[a]) = 1
              /\ RejectedWith(a).properties.uri = connectCalls[a][1].uri
              /\ RejectedWith(a).properties.mongoDBOptions = connectCalls[a][1].options
    /\ \A a, b \in Started :
          (connected[a].isError /\ connected[b].isError /\ path[a] # path[b]) =>
              RejectedWith(a).message # RejectedWith(b).message

\* Witness of C5: MONGODB.connect has failed on both paths.
C5_Witness ==
    \E a, b \in Attempts :
        /\ pc[a] = "ConnectFailed" /\ path[a] = "tunnel"
        /\ pc[b] = "ConnectFailed" /\ path[b] = "direct"
        /\ connected[a] = ErrorOf("MongoNetworkError")
        /\ connected[b] = ErrorOf("Authentication failed")

Allowed ==
    { <<"Start", "Validating">>,
      <<"Validating", "ValidationFailed">>, <<"Validating", "Selecting">>,
      <<"Selecting", "TunnelPending">>, <<"Selecting", "Connecting">>,
      <<"TunnelPending", "TunnelEstablished">>, <<"TunnelPending", "TunnelFailed">>,
      <<"TunnelEstablished", "Connecting">>,
      <<"Connecting", "Connected">>, <<"Connecting", "ConnectFailed">> }

\* C7: every step of an attempt is one of the transitions of the state machine,
\* a terminal state is never left and nothing of the attempt changes in it, and
\* an attempt calls TUNNEL at most once and MONGODB.connect at most once.
C7_OnlyTheseTransitions ==
    [][\A a \in Attempts :
          /\ pc'[a] # pc[a] => <<pc[a], pc'[a]>> \in Allowed
          /\ pc[a] \in Terminal =>
                /\ pc'[a] = pc[a]
                /\ outcome'[a] = outcome[a]
                /\ tunnelCalls'[a] = tunnelCalls[a]
                /\ connectCalls'[a] = connectCalls[a]
          /\ Len(tunnelCalls'[a]) <= 1
          /\ Len(connectCalls'[a]) <= 1
          /\ Len(tunnelCalls'[a]) >= Len(tunnelCalls[a])
          /\ Len(connectCalls'[a]) >= Len(connectCalls[a])]_vars

\* Witness of C7: an attempt has gone all the way through the tunnelled path,
\* with one call of each, and another has failed to connect.
C7_Witness ==
    \E a, b \in Attempts :
        /\ pc[a] = "Connected" /\ path[a] = "tunnel"
        /\ Len(tunnelCalls[a]) = 1 /\ Len(connectCalls[a]) = 1
        /\ pc[b] = "ConnectFailed" /\ Len(connectCalls[b]) = 1

\* C8: an attempt has delivered exactly one outcome when it has finished and
\* none before, the outcome being resolved or rejected; it is resolved only if
\* MONGODB.connect succeeded and, on the tunnelled path, only if TUNNEL had
\* succeeded.
C8_ExactlyOneOutcome ==
    \A a \in Attempts :
        /\ pc[a] \in Terminal => Len(outcome[a]) = 1
        /\ pc[a] \notin Terminal => Len(outcome[a]) = 0
        /\ \A i \in 1..Len(outcome[a]) : outcome[a][i].kind \in {"resolved", "rejected"}
        /\ IsResolved(a) =>
              /\ connected[a] = Client(a)
              /\ Len(connectCalls[a]) = 1
              /\ path[a] = "tunnel" =>
                    /\ tunnel[a] = Server(a)
                    /\ Server(a) \in openTunnels
                    /\ Len(tunnelCalls[a]) = 1
        /\ IsRejected(a) => pc[a] \in {"ValidationFailed", "TunnelFailed", "ConnectFailed"}

\* Witness of C8: one attempt is resolved through the tunnel and another is rejected.
C8_Witness ==
    \E a, b \in Attempts :
        /\ IsResolved(a) /\ path[a] = "tunnel" /\ pc[a] = "Connected"
        /\ IsRejected(b) /\ pc[b] = "TunnelFailed"

C10_EnvMustBeRemote ==
    \A a \in Started :
        options[a].env # Str("remote") => pc[a] \in {"Validating", "ValidationFailed"}

\* The attempts whose options have passed validation.
Validated == {a \in Attempts : pc[a] \notin {"Start", "Validating", "ValidationFailed"}}

PortKeys == {k \in Keys : TypeOfKey(k) = "number"}
StringKeys == {k \in Keys : TypeOfKey(k) \in {"string", "env"}}

\* C11 as stated: every configuration that has passed validation has all four
\* port fields positive integers and all string fields non-empty.
C11_PortsPositiveIntegers ==
    \A a \in Validated :
        /\ \A k \in PortKeys :
              /\ options[a][k].t = "number"
              /\ options[a][k].n > 0
              /\ options[a][k].n % 10 = 0
        /\ \A k \in StringKeys : options[a][k].t = "string" /\ options[a][k].s # ""

\* C11 as amended: every configuration that has passed validation has all four
\* port fields numbers or numeric strings (of any sign, integer or not) and all
\* string fields non-empty strings.
C11_PortsNumericStringsNonEmpty ==
    \A a \in Validated :
        /\ \A k \in PortKeys :
              \/ options[a][k].t = "number"
              \/ options[a][k].t = "string" /\ IsNumericString(options[a][k].s)
        /\ \A k \in StringKeys : options[a][k].t = "string" /\ options[a][k].s # ""

\* Witness of C11: options with a port that is no positive integer have passed
\* validation and MONGODB.connect or TUNNEL has been called with them.
C11_Witness ==
    \E a \in Validated :
        /\ pc[a] \in {"TunnelPending", "Connecting"}
        /\ \E k \in PortKeys :
              /\ options[a][k].t = "number"
              /\ options[a][k].n <= 0 \/ options[a][k].n % 10 # 0

\* Everything the flow keeps for attempt a.
StateOf(a) ==
    <<pc[a], options[a], path[a], tunnelCalls[a], connectCalls[a], tunnel[a], locals[a],
      connected[a], outcome[a]>>

\* A step of attempt a: what belongs to the other attempts is left as it is, and
\* of the tunnels only a's own may be opened.
OnlyTouches(a) ==
    /\ \A b \in Attempts \ {a} : StateOf(b)' = StateOf(b)
    /\ openTunnels \subseteq openTunnels'
    /\ openTunnels' \ openTunnels \subseteq {Server(a)}

\* A handle or an error without the identity of its attempt.
Anonymous(v) == [v EXCEPT !.attempt = 0]

\* Two outcomes that are equal but for the identity of the client handle.
SameOutcome(x, y) ==
    /\ Len(x) = Len(y)
    /\ \A i \in 1..Len(x) :
          /\ x[i].kind = y[i].kind
          /\ x[i].kind = "rejected" => x[i].value = y[i].value
          /\ x[i].kind = "resolved" =>
                /\ x[i].value.message = y[i].value.message
                /\ Anonymous(x[i].value.client) = Anonymous(y[i].value.client)

\* Attempts with equal options, at the same place, whose external calls were
\* answered alike, have taken the same path, made the same calls and delivered
\* the same outcome, whatever the other attempts did in between.
OwnInputsDecide ==
    \A a, b \in Attempts :
        ( /\ pc[a] = pc[b] /\ pc[a] # "Start"
          /\ options[a] = options[b]
          /\ Anonymous(tunnel[a]) = Anonymous(tunnel[b])
          /\ Anonymous(connected[a]) = Anonymous(connected[b]) ) =>
            /\ path[a] = path[b]
            /\ tunnelCalls[a] = tunnelCalls[b]
            /\ connectCalls[a] = connectCalls[b]
            /\ locals[a] = locals[b]
            /\ SameOutcome(outcome[a], outcome[b])

\* C12: attempts run concurrently without shared mutable state: in every
\* interleaving each step changes the state of one attempt only, and the path,
\* URI, connector options and outcome of an attempt are decided by its own options
\* and the answers to its own external calls.
C12_NoSharedState ==
    [][(\E a \in Attempts : OnlyTouches(a)) /\ OwnInputsDecide']_vars

\* Witness of C12: two attempts with equal options are in flight together on the
\* tunnelled path, one waiting for TUNNEL and one for MONGODB.connect, while
\* nothing has been delivered yet.
C12_Witness ==
    \E a, b \in Attempts :
        /\ options[a] = options[b]
        /\ pc[a] = "TunnelPending"
        /\ pc[b] = "Connecting" /\ path[b] = "tunnel"

\* C13: two runs with the same valid options in which TUNNEL and MONGODB.connect
\* succeed deliver two success envelopes that differ in the identity of the
\* client handle only: same fields, same message, and MONGODB.connect (and
\* TUNNEL) was called with the same arguments in both.
C13_SameOptionsSameEnvelope ==
    \A a, b \in Attempts :
        (a # b /\ options[a] = options[b] /\ pc[a] = "Connected" /\ pc[b] = "Connected") =>
            /\ IsResolved(a) /\ IsResolved(b)
            /\ DOMAIN outcome[a][1].value = DOMAIN outcome[b][1].value
            /\ outcome[a][1].value.message = outcome[b][1].value.message
            /\ outcome[a][1].value.client = Client(a)
            /\ outcome[b][1].value.client = Client(b)
            /\ Len(connectCalls[a]) = 1 /\ Len(connectCalls[b]) = 1
            /\ connectCalls[a][1].uri = connectCalls[b][1].uri
            /\ connectCalls[a][1].options = connectCalls[b][1].options
            /\ tunnelCalls[a] = tunnelCalls[b]

\* Witness of C13: two runs with the same options have both succeeded through
\* the tunnel.
C13_Witness ==
    \E a, b \in Attempts :
        /\ a # b /\ options[a] = options[b]
        /\ pc[a] = "Connected" /\ pc[b] = "Connected"
        /\ path[a] = "tunnel" /\ Len(tunnelCalls[b]) = 1

\* C14: the two paths exclude each other.  An attempt whose makeTunnel is the
\* boolean false, and any attempt on the direct path, never calls TUNNEL; an
\* attempt on the tunnelled path calls MONGODB.connect only once its single
\* TUNNEL call has resolved with a server, and not while the tunnel is pending or
\* after it failed.
C14_PathsExclusive ==
    \A a \in Attempts :
        /\ (a \in Started /\ options[a].makeTunnel = Bool(FALSE)) =>
                tunnelCalls[a] = <<>> /\ tunnel[a] = NoValue /\ path[a] # "tunnel"
        /\ path[a] = "direct" => tunnelCalls[a] = <<>> /\ tunnel[a] = NoValue
        /\ (path[a] = "tunnel" /\ connectCalls[a] # <<>>) =>
                /\ Len(tunnelCalls[a]) = 1
                /\ tunnel[a] = Server(a)
                /\ Server(a) \in openTunnels
        /\ pc[a] \in {"TunnelPending", "TunnelFailed"} => connectCalls[a] = <<>>
        /\ (a \in Started /\ options[a].makeTunnel = Bool(TRUE) /\ connectCalls[a] # <<>>) =>
                path[a] = "tunnel"

\* Witness of C14: an attempt with makeTunnel true has called MONGODB.connect
\* behind its established tunnel.
C14_Witness ==
    \E a \in Attempts :
        /\ options[a].makeTunnel = Bool(TRUE)
        /\ pc[a] = "Connecting"
        /\ tunnel[a] = Server(a)
        /\ Len(connectCalls[a]) = 1

\* C15: for every configuration the validator accepts, the tunnelled path is
\* taken exactly when the value validate() reports for makeTunnel (after
\* conversion) is the boolean true, and the direct path exactly when it is the
\* boolean false.
C15_SelectorReadsValidatedFlag ==
    \A a \in Validated :
        LET approved == JoiValidate(options[a]).value.makeTunnel
        IN  /\ approved \in {Bool(TRUE), Bool(FALSE)}
            /\ path[a] = "tunnel" => approved = Bool(TRUE)
            /\ path[a] = "direct" => approved = Bool(FALSE)
            /\ pc[a] # "Selecting" => path[a] \in {"tunnel", "direct"}

\* C16: on the tunnelled path TUNNEL is called with destination
\* documentdbClusterEndpoint:documentdbClusterPort and local port
\* vpcTunnelEC2PortLocal, and the URI later given to MONGODB.connect ends in that
\* same local port; documentdbPort, where it differs, is neither the tunnel's
\* local or destination port nor the port of the URI.
C16_TunnelPortsAgree ==
    \A a \in Attempts :
        path[a] = "tunnel" =>
            LET o == options[a]
                asked == tunnelCalls[a][1]
                user == ToStr(o.documentdbClusterUsername)
                pass == ToStr(o.documentdbClusterPassword)
                host == ToStr(o.documentdbEndpoint)
            IN  /\ Len(tunnelCalls[a]) = 1
                /\ asked.dstHost = o.documentdbClusterEndpoint
                /\ asked.dstPort = o.documentdbClusterPort
                /\ asked.localPort = o.vpcTunnelEC2PortLocal
                /\ o.documentdbPort # o.vpcTunnelEC2PortLocal =>
                        asked.localPort # o.documentdbPort
                /\ o.documentdbPort # o.documentdbClusterPort =>
                        asked.dstPort # o.documentdbPort
                /\ \A i \in 1..Len(connectCalls[a]) :
                      /\ connectCalls[a][i].uri =
                            ExpectedUri(user, pass, host, ToStr(asked.localPort))
                      /\ ToStr(o.documentdbPort) # ToStr(asked.localPort) =>
                            connectCalls[a][i].uri #
                                ExpectedUri(user, pass, host, ToStr(o.documentdbPort))

\* Witness of C16: a tunnel listening on 27018 towards db.internal:27017 is up,
\* MONGODB.connect was called with port 27018, and documentdbPort is another port.
C16_Witness ==
    \E a \in Attempts :
        /\ path[a] = "tunnel"
        /\ tunnel[a] = Server(a)
        /\ tunnelCalls[a][1].localPort = Num(27018)
        /\ tunnelCalls[a][1].dstHost = Str("db.internal")
        /\ tunnelCalls[a][1].dstPort = Num(27017)
        /\ options[a].documentdbPort = Num(27019)
        /\ Len(connectCalls[a]) = 1
        /\ connectCalls[a][1].uri = ExpectedUri("u", "p", "localhost", "27018")

\* The attempts whose TUNNEL call resolved with a server.
Established == {a \in Attempts : tunnel[a] = Server(a)}

\* The handles of the servers tunnel-ssh may resolve with.
TunnelHandles == {Server(a) : a \in Attempts}

\* C17: no step of the flow closes a tunnel.  Every attempt whose tunnel was
\* established, wherever it is afterwards (Connected and ConnectFailed
\* included), still has its server among the open ones; there are as many open
\* tunnels as attempts that established one; and the server handle is neither
\* the client of a success envelope nor the cause carried by an error.
C17_TunnelNeverClosed ==
    /\ \A a \in Attempts :
          (path[a] = "tunnel" /\ pc[a] \in {"TunnelEstablished", "Connecting",
                                             "Connected", "ConnectFailed"}) =>
                a \in Established /\ Server(a) \in openTunnels
    /\ openTunnels = {Server(a) : a \in Established}
    /\ Cardinality(openTunnels) = Cardinality(Established)
    /\ \A a \in Attempts :
          /\ IsResolved(a) =>
                /\ DOMAIN outcome[a][1].value = {"message", "client"}
                /\ outcome[a][1].value.client \notin TunnelHandles
          /\ (IsRejected(a) /\ pc[a] = "ConnectFailed") =>
                /\ DOMAIN RejectedWith(a).properties = {"error", "uri", "mongoDBOptions"}
                /\ RejectedWith(a).properties.error \notin TunnelHandles
          /\ (IsRejected(a) /\ pc[a] = "TunnelFailed") =>
                /\ DOMAIN RejectedWith(a).properties = {"error", "options"}
                /\ RejectedWith(a).properties.error \notin TunnelHandles

\* Witness of C17: every attempt has established a tunnel, one has connected
\* and another has failed to connect, and all their tunnels are open.
C17_Witness ==
    /\ Established = Attempts
    /\ Cardinality(openTunnels) = NumAttempts
    /\ \E a, b \in Attempts : pc[a] = "Connected" /\ pc[b] = "ConnectFailed"

\* C18: a validation failure reaches the caller as the validator's own error,
\* not wrapped and without a status; every tunnel failure and every connect
\* failure reaches the caller as an HTTPError of status 500 around its cause;
\* and an attempt that failed is rejected once and never resolved, while an
\* attempt is resolved only when MONGODB.connect gave a client.
C18_FailuresSurfaced ==
    \A a \in Attempts :
        /\ pc[a] = "ValidationFailed" =>
              /\ IsRejected(a)
              /\ RejectedWith(a) = JoiValidate(options[a]).error
              /\ RejectedWith(a).name = "ValidationError"
              /\ "status" \notin DOMAIN RejectedWith(a)
        /\ pc[a] = "TunnelFailed" =>
              /\ IsRejected(a)
              /\ RejectedWith(a).name = "HTTPError"
              /\ RejectedWith(a).status = 500
              /\ RejectedWith(a).properties.error = tunnel[a]
              /\ InstanceOfError(tunnel[a])
        /\ pc[a] = "ConnectFailed" =>
              /\ IsRejected(a)
              /\ RejectedWith(a).name = "HTTPError"
              /\ RejectedWith(a).status = 500
              /\ RejectedWith(a).properties.error = connected[a]
              /\ InstanceOfError(connected[a])
        /\ (InstanceOfError(tunnel[a]) \/ InstanceOfError(connected[a])
              \/ (pc[a] \notin {"Start", "Validating"} /\ FailsValidation(options[a]))) =>
              IsRejected(a)
        /\ IsResolved(a) => pc[a] = "Connected" /\ connected[a] = Client(a)
        /\ pc[a] \notin Terminal => outcome[a] = <<>>

\* Witness of C18: an attempt with an invalid configuration has been rejected
\* with the validator's error.
C18_Witness ==
    \E a \in Attempts :
        /\ pc[a] = "ValidationFailed"
        /\ IsRejected(a)
        /\ RejectedWith(a) = ValidationError("vpcTunnelEC2Port")

\* C19: on both paths the options given to MONGODB.connect have useNewUrlParser
\* and ssl true, sslCA as it is in the configuration, and auth.user and
\* auth.password equal to documentdbClusterUsername and
\* documentdbClusterPassword, which are the user and password the URI of the
\* same call embeds.
C19_ConnectorOptions ==
    \A a \in Attempts :
        \A i \in 1..Len(connectCalls[a]) :
            LET o == options[a]
                call == connectCalls[a][i]
                host == IF path[a] = "tunnel" THEN o.documentdbEndpoint
                                              ELSE o.documentdbClusterEndpoint
                port == IF path[a] = "tunnel" THEN o.vpcTunnelEC2PortLocal
                                              ELSE o.documentdbClusterPort
            IN  /\ path[a] \in {"tunnel", "direct"}
                /\ DOMAIN call.options = {"useNewUrlParser", "ssl", "sslCA", "auth"}
                /\ call.options.useNewUrlParser = Bool(TRUE)
                /\ call.options.ssl = Bool(TRUE)
                /\ call.options.sslCA = o.sslCA
                /\ DOMAIN call.options.auth = {"user", "password"}
                /\ call.options.auth.user = o.documentdbClusterUsername
                /\ call.options.auth.password = o.documentdbClusterPassword
                /\ call.uri = ExpectedUri(ToStr(call.options.auth.user),
                                          ToStr(call.options.auth.password),
                                          ToStr(host), ToStr(port))

\* Witness of C19: one attempt has called MONGODB.connect on the tunnelled path
\* and another on the direct path, with different users.
C19_Witness ==
    \E a, b \in Attempts :
        /\ path[a] = "tunnel" /\ Len(connectCalls[a]) = 1
        /\ path[b] = "direct" /\ Len(connectCalls[b]) = 1
        /\ connectCalls[a][1].options.auth.user = Str("other")
        /\ connectCalls[b][1].options.auth.user = Str("u")
        /\ connectCalls[b][1].options.sslCA = Str("CA")

=============================================================================
